---- MODULE Spec2Model ----
(***************************************************************************)
(* Model of bayestar's per-star grid evaluation (src/src/star_exact.cpp):  *)
(* star_covariance, star_max_likelihood, gaussian_filter and               *)
(* integrate_ML_solution.                                                  *)
(*                                                                         *)
(* Doubles are modelled as exact rationals extended with the IEEE special  *)
(* values: a number is a record [n, d]; d > 0 is the rational n/d in       *)
(* lowest terms, [1,0] is +inf, [-1,0] is -inf and [0,0] is NaN.  Rounding *)
(* and the sign of zero are not modelled.                                  *)
(***************************************************************************)
EXTENDS Integers, Sequences, FiniteSets, TLC

(***************************************************************************)
(* Arithmetic of doubles                                                   *)
(***************************************************************************)
Abs(x) == IF x < 0 THEN -x ELSE x

Sign(x) == IF x < 0 THEN -1 ELSE IF x > 0 THEN 1 ELSE 0

RECURSIVE GCD(_, _)
GCD(a, b) == IF b = 0 THEN a ELSE GCD(b, a % b)

\* The operators below take their operands by value: V(e) is the value of e,
\* bound once, so that an operand that is itself a long computation is
\* evaluated a single time.
NormV(n, d) ==
    IF d = 0 THEN [n |-> Sign(n), d |-> 0]
    ELSE LET s == IF d < 0 THEN -1 ELSE 1
             g == GCD(Abs(n), Abs(d))
         IN  [n |-> (s * n) \div g, d |-> (s * d) \div g]

Norm(n, d) == CHOOSE r \in {NormV(p[1], p[2]) : p \in {<<n, d>>}} : TRUE

Num(i) == [n |-> i, d |-> 1]

Frac(i, j) == Norm(i, j)

Zero == Num(0)

One == Num(1)

NaN == [n |-> 0, d |-> 0]

PInf == [n |-> 1, d |-> 0]

NInf == [n |-> -1, d |-> 0]

IsNaN(a) == \E x \in {a} : x.d = 0 /\ x.n = 0

IsInf(a) == \E x \in {a} : x.d = 0 /\ x.n # 0

IsFinite(a) == a.d > 0

NegV(a) == [n |-> -a.n, d |-> a.d]

Neg(a) == CHOOSE r \in {NegV(x) : x \in {a}} : TRUE

AddV(a, b) ==
    IF a.d = 0 \/ b.d = 0
    THEN IF (a.d = 0 /\ a.n = 0) \/ (b.d = 0 /\ b.n = 0) THEN NaN
         ELSE IF a.d = 0 /\ b.d = 0 THEN (IF a.n = b.n THEN a ELSE NaN)
         ELSE IF a.d = 0 THEN a ELSE b
    ELSE LET g == GCD(a.d, b.d)
         IN  NormV(a.n * (b.d \div g) + b.n * (a.d \div g), (a.d \div g) * b.d)

\* a + b
Add(a, b) == CHOOSE r \in {AddV(p[1], p[2]) : p \in {<<a, b>>}} : TRUE

\* a - b
Sub(a, b) == Add(a, Neg(b))

MulV(a, b) ==
    IF a.d = 0 \/ b.d = 0 THEN [n |-> Sign(a.n) * Sign(b.n), d |-> 0]
    ELSE IF a.n = 0 \/ b.n = 0 THEN [n |-> 0, d |-> 1]
    ELSE LET g1 == GCD(Abs(a.n), b.d)
             g2 == GCD(Abs(b.n), a.d)
         IN  [n |-> (a.n \div g1) * (b.n \div g2),
              d |-> (a.d \div g2) * (b.d \div g1)]

\* a * b
Mul(a, b) == CHOOSE r \in {MulV(p[1], p[2]) : p \in {<<a, b>>}} : TRUE

RecipV(b) == IF b.n < 0 THEN [n |-> -b.d, d |-> -b.n] ELSE [n |-> b.d, d |-> b.n]

\* a / b: x / 0. is an infinity, or NaN for x = 0.
Div(a, b) == CHOOSE r \in {MulV(p[1], RecipV(p[2])) : p \in {<<a, b>>}} : TRUE

LtV(a, b) ==
    IF (a.d = 0 /\ a.n = 0) \/ (b.d = 0 /\ b.n = 0) THEN FALSE
    ELSE IF a.d = 0 /\ b.d = 0 THEN a.n < b.n
    ELSE IF a.d = 0 \/ b.d = 0 THEN a.n * b.d < b.n * a.d
    ELSE LET g == GCD(a.d, b.d)
         IN  a.n * (b.d \div g) < b.n * (a.d \div g)

\* operator< of doubles: false as soon as one side is NaN
Lt(a, b) == \E p \in {<<a, b>>} : LtV(p[1], p[2])

Gt(a, b) == Lt(b, a)

Le(a, b) ==
    \E p \in {<<a, b>>} : ~IsNaN(p[1]) /\ ~IsNaN(p[2]) /\ ~LtV(p[2], p[1])

Ge(a, b) == Le(b, a)

\* floor of a finite number
Floor(a) == CHOOSE r \in {x.n \div x.d : x \in {a}} : TRUE

Sq(a) == CHOOSE r \in {MulV(x, x) : x \in {a}} : TRUE

RECURSIVE SumRange(_, _, _)
\* f[lo] + ... + f[hi].  Without rounding the sum does not depend on the
\* order of the additions (also with infinities and NaN), so it is taken by
\* halves rather than left to right as in the loops
SumRange(f, lo, hi) ==
    IF hi < lo THEN Zero
    ELSE IF lo = hi THEN f[lo]
    ELSE LET mid == (lo + hi) \div 2
         IN  Add(SumRange(f, lo, mid), SumRange(f, mid + 1, hi))

\* a loop's accumulator: 0. plus f[1], ..., f[k]
SumTo(f, k) == Add(Zero, SumRange(f, 1, k))

(***************************************************************************)
(* Bounds and program constants                                            *)
(***************************************************************************)
\* number of photometric bands (a build-time constant of the program)
NBANDS == 3

Bands == 1 .. NBANDS

\* The missing-band sentinel, 1.e9 in the source.  Magnitudes and errors are
\* measured in a unit in which the sentinel is 2, so that err*err stays inside
\* the integers; every formula of the fit is homogeneous in that unit.
MISSING_ERR == 2

(***************************************************************************)
(* star_covariance                                                         *)
(***************************************************************************)
\* double ivar = 1. / (mags_obs.err[i] * mags_obs.err[i]);
Ivar(err_i) == Div(One, Mul(err_i, err_i))

star_covariance(err, A) ==
    LET ivar == [i \in Bands |-> Ivar(err[i])]
        inv_sigma2 == SumTo(ivar, NBANDS)
        A_over_sigma2 == SumTo([i \in Bands |-> Mul(A[i], ivar[i])], NBANDS)
        A2_over_sigma2 ==
            SumTo([i \in Bands |-> Mul(Mul(A[i], A[i]), ivar[i])], NBANDS)
    IN  [inv_cov_00 |-> inv_sigma2,
         inv_cov_01 |-> A_over_sigma2,
         inv_cov_11 |-> A2_over_sigma2]

(***************************************************************************)
(* star_max_likelihood (the overload taking the inverse covariance)        *)
(***************************************************************************)
\* the chi^2 loop shared by both overloads and calc_star_chi2
calc_star_chi2(absmag, m, err, A, mu, E) ==
    SumTo([i \in Bands |->
              LET ivar == Ivar(err[i])
                  dm == Sub(m[i], absmag[i])
                  delta == Sub(Sub(dm, Mul(E, A[i])), mu)
              IN  Mul(Mul(delta, delta), ivar)], NBANDS)

\* 1. - C_01 * C_10, the denominator of C_det_inv
CDetDenominator(inv_cov_00, inv_cov_01, inv_cov_11) ==
    LET C_01 == Div(inv_cov_01, inv_cov_00)
        C_10 == Div(inv_cov_01, inv_cov_11)
    IN  Sub(One, Mul(C_01, C_10))

\* the solution with the correlation between mu and E left out
SolveML_uncorrelated(dm_over_sigma2, dm_A_over_sigma2, inv_cov_00, inv_cov_01, inv_cov_11) ==
    [mu |-> Div(dm_over_sigma2, inv_cov_00),
     E |-> Div(dm_A_over_sigma2, inv_cov_11)]

\* mu, E from the two data sums and the inverse covariance
SolveML(dm_over_sigma2, dm_A_over_sigma2, inv_cov_00, inv_cov_01, inv_cov_11) ==
    LET mu_0 == Div(dm_over_sigma2, inv_cov_00)
        E_0 == Div(dm_A_over_sigma2, inv_cov_11)
        C_01 == Div(inv_cov_01, inv_cov_00)
        C_10 == Div(inv_cov_01, inv_cov_11)
        C_det_inv == Div(One, CDetDenominator(inv_cov_00, inv_cov_01, inv_cov_11))
    IN  [mu |-> Mul(C_det_inv, Sub(mu_0, Mul(C_01, E_0))),
         E |-> Mul(C_det_inv, Sub(E_0, Mul(C_10, mu_0)))]

star_max_likelihood(absmag, m, err, A, ic) ==
    LET ivar == [i \in Bands |-> Ivar(err[i])]
        dm == [i \in Bands |-> Sub(m[i], absmag[i])]
        dm_over_sigma2 == SumTo([i \in Bands |-> Mul(dm[i], ivar[i])], NBANDS)
        dm_A_over_sigma2 ==
            SumTo([i \in Bands |-> Mul(Mul(dm[i], A[i]), ivar[i])], NBANDS)
        ml == SolveML(dm_over_sigma2, dm_A_over_sigma2,
                      ic.inv_cov_00, ic.inv_cov_01, ic.inv_cov_11)
    IN  [mu |-> ml.mu, E |-> ml.E,
         chi2 |-> calc_star_chi2(absmag, m, err, A, ml.mu, ml.E),
         dm_over_sigma2 |-> dm_over_sigma2,
         dm_A_over_sigma2 |-> dm_A_over_sigma2]

(***************************************************************************)
(* star_max_likelihood (the overload returning LinearFitParams)            *)
(***************************************************************************)
star_max_likelihood_params(absmag, m, err, A) ==
    LET ivar == [i \in Bands |-> Ivar(err[i])]
        dm == [i \in Bands |-> Sub(m[i], absmag[i])]
        inv_sigma2 == SumTo(ivar, NBANDS)
        A_over_sigma2 == SumTo([i \in Bands |-> Mul(A[i], ivar[i])], NBANDS)
        A2_over_sigma2 ==
            SumTo([i \in Bands |-> Mul(Mul(A[i], A[i]), ivar[i])], NBANDS)
        dm_over_sigma2 == SumTo([i \in Bands |-> Mul(dm[i], ivar[i])], NBANDS)
        dm_A_over_sigma2 ==
            SumTo([i \in Bands |-> Mul(Mul(dm[i], A[i]), ivar[i])], NBANDS)
        ml == SolveML(dm_over_sigma2, dm_A_over_sigma2,
                      inv_sigma2, A_over_sigma2, A2_over_sigma2)
    IN  [mu |-> ml.mu, E |-> ml.E,
         chi2 |-> calc_star_chi2(absmag, m, err, A, ml.mu, ml.E),
         inv_cov |-> [inv_cov_00 |-> inv_sigma2,
                      inv_cov_01 |-> A_over_sigma2,
                      inv_cov_11 |-> A2_over_sigma2]]

(***************************************************************************)
(* exp, sqrt and ceil of <math>                                            *)
(***************************************************************************)
\* exp(-k/2) in 64ths, k = 0 .. 8
ExpTab == <<64, 39, 24, 14, 9, 5, 3, 2, 1>>

\* exp as a step function on half-integers: exact at 0, monotone, positive
\* down to the underflow threshold of doubles (x < -745) and 0. below it,
\* finite up to the overflow threshold (x > 709) and +inf above it
ExpV(x) ==
    IF IsNaN(x) THEN NaN
    ELSE IF x = PInf THEN PInf
    ELSE IF x = NInf THEN Zero
    ELSE IF x.n <= 0
         THEN LET k == ((-2) * x.n) \div x.d
              IN  IF k < Len(ExpTab) THEN Frac(ExpTab[k + 1], ExpTab[1])
                  ELSE IF k <= 2 * 745 THEN Frac(1, ExpTab[1])
                  ELSE Zero
         ELSE LET k == (2 * x.n) \div x.d
              IN  IF k < Len(ExpTab) THEN Frac(ExpTab[1], ExpTab[k + 1])
                  ELSE IF k <= 2 * 709 THEN Frac(ExpTab[1], 1)
                  ELSE PInf

Exp(y) == CHOOSE r \in {ExpV(x) : x \in {y}} : TRUE

\* largest half-width the model builds a kernel for
MaxHalfWidth == 12

\* (int)(ceil(n_sigma * sqrt(q) / dx)) for n_sigma >= 0, dx > 0 and finite
\* q >= 0: the least w >= 0 with w*w >= n_sigma^2 * q / dx^2; -1 when that is
\* beyond MaxHalfWidth.  For a NaN the conversion to int is undefined and
\* yields nan_cast.
CeilSigma(n_sigma, q, dx, nan_cast) ==
    LET r == Div(Mul(Sq(n_sigma), q), Sq(dx))
    IN  IF IsNaN(r) \/ Lt(r, Zero) THEN nan_cast
        ELSE IF IsInf(r) THEN -1
        ELSE LET c == -((-r.n) \div r.d)
                 ws == {w \in 0 .. MaxHalfWidth : w * w >= c}
             IN  IF ws = {} THEN -1
                 ELSE CHOOSE w \in ws : \A v \in ws : w <= v

Max(a, b) == IF a < b THEN b ELSE a

(***************************************************************************)
(* gaussian_filter (the overload taking the three inverse-covariance terms)*)
(***************************************************************************)
\* the regularization added to the determinant
RegEps == Frac(1, 100000)

\* inv_cov_00 * inv_cov_11 - inv_cov_01 * inv_cov_01
Det(c00, c01, c11) == Sub(Mul(c00, c11), Mul(c01, c01))

\* if(add_diagonal > 0.) { ... }: to covariance, broaden, and back
Broaden(ic, dx, add_diagonal) ==
    IF Gt(add_diagonal, Zero)
    THEN LET diag == [k \in {0, 1} |-> Mul(add_diagonal, dx[k])]
             det == Det(ic.inv_cov_00, ic.inv_cov_01, ic.inv_cov_11)
             cov_00 == Add(Div(ic.inv_cov_11, det), Mul(diag[0], diag[0]))
             cov_11 == Add(Div(ic.inv_cov_00, det), Mul(diag[1], diag[1]))
             cov_01 == Div(Neg(ic.inv_cov_01), det)
             det2 == Det(cov_00, cov_01, cov_11)
         IN  [inv_cov_00 |-> Div(cov_11, det2),
              inv_cov_01 |-> Div(Neg(cov_01), det2),
              inv_cov_11 |-> Div(cov_00, det2)]
    ELSE ic

\* double det = ... + 1.e-5; sigma[k]^2
Sigma2(ic) ==
    LET det == Add(Det(ic.inv_cov_00, ic.inv_cov_01, ic.inv_cov_11), RegEps)
    IN  [k \in {0, 1} |->
            IF k = 0 THEN Div(ic.inv_cov_11, det) ELSE Div(ic.inv_cov_00, det)]

\* width[k] = std::max(min_width, (int)(ceil(n_sigma * sigma[k] / grid.dx[k])))
KernelWidth(ic, dx, n_sigma, min_width, nan_cast) ==
    LET s2 == Sigma2(ic)
    IN  [k \in {0, 1} |->
            LET c == CeilSigma(n_sigma, s2[k], dx[k], nan_cast)
            IN  IF c = -1 THEN -1 ELSE Max(min_width, c)]

\* one sample of the sub-sampled image
SubSample(ic, dx, subsample, w_sub, h_sub, i, j) ==
    LET ddx == Mul(Frac(2 * i - (w_sub - 1), 2 * subsample), dx[0])
        ddy == Mul(Frac(2 * j - (h_sub - 1), 2 * subsample), dx[1])
        cxx == Mul(ic.inv_cov_00, Mul(ddx, ddx))
        cxy == Mul(ic.inv_cov_01, Mul(ddx, ddy))
        cyy == Mul(ic.inv_cov_11, Mul(ddy, ddy))
    IN  Exp(Mul(Frac(-1, 2), Add(Add(cxx, Mul(Num(2), cxy)), cyy)))

\* the sum of block (I, J) of the sub-sampled image
BlockSum(ic, dx, subsample, w_sub, h_sub, I, J) ==
    SumRange([t \in 0 .. subsample * subsample - 1 |->
                 SubSample(ic, dx, subsample, w_sub, h_sub,
                           I * subsample + (t \div subsample),
                           J * subsample + (t % subsample))],
             0, subsample * subsample - 1)

\* cv::resize(..., cv::INTER_AREA) by an integer factor: the mean of each block
ResizeArea(ic, dx, subsample, w, h) ==
    [p \in (0 .. w - 1) \X (0 .. h - 1) |->
        Div(BlockSum(ic, dx, subsample, subsample * w, subsample * h,
                     p[1], p[2]),
            Num(subsample * subsample))]

\* img /= img.at<floating_t>(width[0], width[1])
DivideByCentre(img_down, width) ==
    CHOOSE r \in {[p \in DOMAIN img_down |-> Div(img_down[p], centre)] :
                    centre \in {img_down[<<width[0], width[1]>>]}} : TRUE

\* the image of the kernel for the broadened inverse covariance and the widths
KernelImg(ic, dx, subsample, width) ==
    DivideByCentre(ResizeArea(ic, dx, subsample, 2 * width[0] + 1, 2 * width[1] + 1),
                   width)

\* the kernel: [raised, width, img].  cv::resize throws on an empty source
\* image, which is what a subsample < 1 produces.
gaussian_filter(ic_in, dx, n_sigma, min_width, add_diagonal, subsample, nan_cast) ==
    CHOOSE r \in
        {IF subsample < 1
         THEN [raised |-> TRUE, width |-> q[2], img |-> <<>>]
         ELSE IF q[2][0] < 0 \/ q[2][1] < 0
         THEN [raised |-> FALSE, width |-> q[2], img |-> <<>>]
         ELSE [raised |-> FALSE, width |-> q[2],
               img |-> KernelImg(q[1], dx, subsample, q[2])] :
            q \in {<<ic, KernelWidth(ic, dx, n_sigma, min_width, nan_cast)>> :
                      ic \in {Broaden(ic_in, dx, add_diagonal)}}} : TRUE

(***************************************************************************)
(* The collaborators of integrate_ML_solution                              *)
(***************************************************************************)
\* stellar_model.get_N_Mr(), get_N_FeH()
N_Mr == 2

N_FeH == 1

NCells == N_Mr * N_FeH

\* cell (Mr_idx, FeH_idx) in the order of the sweep
CellIdx(Mr_idx, FeH_idx) == Mr_idx * N_FeH + FeH_idx

Cells == 0 .. NCells - 1

\* img_stack.rect: N_bins, min and max of the (E, mu) grid; dx = (max - min) / N_bins
N_BINS_E == 2

N_BINS_MU == 2

N_bins == [a \in {0, 1} |-> IF a = 0 THEN N_BINS_E ELSE N_BINS_MU]

RectMin == [a \in {0, 1} |-> Zero]

RectMax == [a \in {0, 1} |-> Num(2 * N_bins[a])]

RectDx == [a \in {0, 1} |-> Div(Sub(RectMax[a], RectMin[a]), Num(N_bins[a]))]

Bins == (0 .. N_bins[0] - 1) \X (0 .. N_bins[1] - 1)

\* img_stack.initialize_to_zero(img_idx)
ZeroImg == [b \in Bins |-> Zero]

\* rect->get_interpolant(x0, x1, i0, i1, a0, a1): the bin of the coordinate,
\* the fractional offset in it, and whether the coordinate lies in bounds
get_interpolant(x0, x1) ==
    LET x == [a \in {0, 1} |-> IF a = 0 THEN x0 ELSE x1]
        inb == \A a \in {0, 1} : Ge(x[a], RectMin[a]) /\ Lt(x[a], RectMax[a])
        f == [a \in {0, 1} |-> Div(Sub(x[a], RectMin[a]), RectDx[a])]
    IN  IF inb
        THEN [in_bounds |-> TRUE,
              idx |-> [a \in {0, 1} |-> Floor(f[a])],
              a |-> [a \in {0, 1} |-> Sub(f[a], Num(Floor(f[a])))]]
        ELSE [in_bounds |-> FALSE, idx |-> [a \in {0, 1} |-> 0],
              a |-> [a \in {0, 1} |-> Zero]]

\* los_model.log_prior_emp(mu, Mr, FeH) + stellar_model.get_log_lf(Mr), as
\* the collaborators give it for the cell (0 is the sum's largest value here)
LogPrior(c) == Frac(-(c % 3), 2)

\* pow(10., y) as a step function on the integers: exact there and monotone
Pow10(y) ==
    IF ~IsFinite(y) THEN (IF y = NInf THEN Zero ELSE y)
    ELSE LET e == Floor(y)
         IN  IF e >= 0 THEN Num(10 ^ (IF e > 6 THEN 6 ELSE e))
             ELSE Frac(1, 10 ^ (IF e < -6 THEN 6 ELSE -e))

\* the prior of one cell
Prior(c, mu, use_priors, use_gaia, pi, pierr) ==
    LET p0 == Zero
        p1 == IF use_priors THEN Add(p0, LogPrior(c)) ELSE p0
        pi_mu == Pow10(Div(Neg(Add(mu, Num(5))), Num(5)))
        g == Div(Mul(Mul(Frac(-1, 2), Sub(pi, pi_mu)), Sub(pi, pi_mu)),
                 Mul(pierr, pierr))
    IN  IF use_gaia THEN Add(p1, g) ELSE p1

RECURSIVE MaxIdx(_, _)
\* std::max_element over the first n entries: the first largest one
MaxIdx(s, n) ==
    IF n = 1 THEN 1
    ELSE LET j == MaxIdx(s, n - 1) IN IF Lt(s[j], s[n]) THEN n ELSE j

RECURSIVE MinIdx(_, _)
\* std::min_element over the first n entries: the first smallest one
MinIdx(s, n) ==
    IF n = 1 THEN 1
    ELSE LET j == MinIdx(s, n - 1) IN IF Lt(s[n], s[j]) THEN n ELSE j

\* the smallest element taken where the largest is meant
max_element_as_min(s) == s[MinIdx(s, Len(s))]

max_element(s) == s[MaxIdx(s, Len(s))]

\* the largest element taken where the smallest is meant
min_element_as_max(s) == s[MaxIdx(s, Len(s))]

min_element(s) == s[MinIdx(s, Len(s))]

\* what *end() of an empty vector with reserved storage can read
GarbageVals == {Zero, NaN}

RECURSIVE Reflect101(_, _)
\* cv::borderInterpolate(p, len, BORDER_REFLECT_101)
Reflect101(p, len) ==
    IF len = 1 THEN 0
    ELSE IF p >= 0 /\ p < len THEN p
    ELSE IF p < 0 THEN Reflect101(-p, len)
    ELSE Reflect101(2 * len - 2 - p, len)

\* one output bin: the sum over the kernel's bins (u, v)
FilterSum(src, kernel, width, i, j) ==
    LET h == 2 * width[1] + 1
        n == (2 * width[0] + 1) * h
    IN  SumRange([t \in 0 .. n - 1 |->
                     LET u == t \div h
                         v == t % h
                         si == Reflect101(i + u - width[0], N_bins[0])
                         sj == Reflect101(j + v - width[1], N_bins[1])
                     IN  Mul(kernel[<<u, v>>], src[<<si, sj>>])],
                 0, n - 1)

\* cv::filter2D(src, dst, CV_FLOATING_TYPE, kernel): correlation, anchor at the
\* kernel center, border reflected
filter2D(src, kernel, width) ==
    [b \in Bins |-> FilterSum(src, kernel, width, b[1], b[2])]

\* the four writes of one deposit, in the order of the code
DepositWrites(i0, i1, a0, a1, p) ==
    <<[row |-> i0, col |-> i1, v |-> Mul(Mul(Sub(One, a0), Sub(One, a1)), p)],
      [row |-> i0 + 1, col |-> i1, v |-> Mul(Mul(a0, Sub(One, a1)), p)],
      [row |-> i0, col |-> i1 + 1, v |-> Mul(Mul(Sub(One, a0), a1), p)],
      [row |-> i0 + 1, col |-> i1 + 1, v |-> Mul(Mul(a0, a1), p)]>>

InSurface(row, col) == row < N_bins[0] /\ col < N_bins[1]

\* at<floating_t>(row, col) checks nothing in a release build: the element it
\* names is number row * cols + col of the storage
InStorage(row, col) == row * N_bins[1] + col < N_bins[0] * N_bins[1]

StorageBin(row, col) ==
    LET a == row * N_bins[1] + col IN <<a \div N_bins[1], a % N_bins[1]>>

RECURSIVE ApplyWrites(_, _, _)
\* the surface after the first n writes
ApplyWrites(surf, ws, n) ==
    IF n = 0 THEN surf
    ELSE LET s == ApplyWrites(surf, ws, n - 1)
             w == ws[n]
         IN  IF InStorage(w.row, w.col)
             THEN LET b == StorageBin(w.row, w.col)
                  IN  [s EXCEPT ![b] = Add(s[b], w.v)]
             ELSE s

\* the writes of a deposit that name no bin of the surface
OutsideWrites(ws) ==
    {<<ws[n].row, ws[n].col>> : n \in {q \in 1 .. Len(ws) : ~InSurface(ws[q].row, ws[q].col)}}

\* the bands the return value counts
n_passbands(err) ==
    Cardinality({i \in Bands :
        ~(IsNaN(err[i]) \/ IsInf(err[i]) \/ Gt(err[i], Num(MISSING_ERR)))})

(***************************************************************************)
(* State                                                                   *)
(***************************************************************************)
VARIABLES
    pc,         \* position in the function being run
    in,         \* the arguments of the call
    inv_cov,    \* inv_cov_00, inv_cov_01, inv_cov_11
    img,        \* img_stack.img[img_idx], the star's surface
    E_ML, mu_ML, chi2_ML, prior_ML,   \* the vectors of recorded cells
    cell,       \* number of stellar-type cells swept so far
    prior_max, chi2_min,
    k,          \* index of the next recorded cell to deposit
    dep,        \* log of the deposits made: what each one used
    oob,        \* writes of a deposit that fell outside the surface's storage
    cov_img,    \* the smoothing kernel
    ret,        \* the value returned
    img_stack,  \* grid_eval_stars: img_stack.img, one surface per star
    chi2,       \* grid_eval_stars: the chi2 vector
    star_i,     \* grid_eval_stars: index of the next star of the loop
    cropped,    \* grid_eval_stars: img_stack.crop has been called
    smoothed,   \* grid_eval_stars: the calls of img_stack.smooth made
    written     \* grid_eval_stars: the calls of img_buffer.write made

\* the state of integrate_ML_solution, gaussian_filter and the fits
star_vars == <<inv_cov, img, E_ML, mu_ML, chi2_ML, prior_ML, cell,
               prior_max, chi2_min, k, dep, oob, cov_img, ret>>

\* the state of grid_eval_stars
batch_vars == <<img_stack, chi2, star_i, cropped, smoothed, written>>

vars == <<pc, in, inv_cov, img, E_ML, mu_ML, chi2_ML, prior_ML, cell,
          prior_max, chi2_min, k, dep, oob, cov_img, ret,
          img_stack, chi2, star_i, cropped, smoothed, written>>

Null == [n |-> 0, d |-> -1]

\* grid_eval_stars is not running
NoBatch ==
    /\ img_stack = <<>> /\ chi2 = <<>> /\ star_i = 0
    /\ cropped = FALSE /\ smoothed = <<>> /\ written = <<>>

(***************************************************************************)
(* Inputs                                                                  *)
(***************************************************************************)
\* errors of a band: ordinary, exactly the sentinel, above it, infinite
ErrVals == {Num(1), Num(MISSING_ERR), Num(2 * MISSING_ERR), PInf}

\* the first j bands have error e, the others an ordinary error
ErrPatterns ==
    {[i \in Bands |-> IF i <= j THEN e ELSE Num(1)] :
        j \in {1, NBANDS - 1, NBANDS}, e \in ErrVals}

\* ext_model.get_A(RV, i): distinct coefficients, or the same in every band
APatterns == {[i \in Bands |-> Num(i)], [i \in Bands |-> Num(1)]}

\* noise added to the magnitudes: none, or one unit in the first band
NoisePatterns == {[i \in Bands |-> Zero], [i \in Bands |-> IF i = 1 THEN One ELSE Zero]}

\* absolute magnitudes of the SED of cell c of the library
AbsMag(c) == [i \in Bands |-> Num((c * i) % 3)]

\* m_i = M_i + mu + E * A_i + noise_i
Magnitudes(absmag, A, mu, E, noise) ==
    [i \in Bands |-> Add(Add(Add(absmag[i], mu), Mul(E, A[i])), noise[i])]

(***************************************************************************)
(* The two fits run on one star against one SED                            *)
(***************************************************************************)
TruthVals == {<<Num(0), Num(0)>>, <<Num(1), Num(2)>>, <<Frac(1, 2), Num(1)>>}

InitFit ==
    /\ pc = "fit_start"
    /\ \E err \in ErrPatterns, A \in APatterns, noise \in NoisePatterns,
          t \in TruthVals, c \in {1, 2} :
          in = [err |-> err, A |-> A, absmag |-> AbsMag(c),
                mu_true |-> t[1], E_true |-> t[2], noise |-> noise,
                m |-> Magnitudes(AbsMag(c), A, t[1], t[2], noise)]
    /\ inv_cov = Null /\ ret = Null
    /\ img = Null /\ E_ML = <<>> /\ mu_ML = <<>> /\ chi2_ML = <<>>
    /\ prior_ML = <<>> /\ cell = 0 /\ prior_max = Null /\ chi2_min = Null
    /\ k = 0 /\ dep = <<>> /\ oob = {} /\ cov_img = Null
    /\ NoBatch

FitCovariance ==
    /\ pc = "fit_start"
    /\ inv_cov' = star_covariance(in.err, in.A)
    /\ pc' = "fit_cov"
    /\ UNCHANGED <<in, img, E_ML, mu_ML, chi2_ML, prior_ML, cell, prior_max,
                   chi2_min, k, dep, oob, cov_img, ret>>
    /\ UNCHANGED batch_vars

FitML ==
    /\ pc = "fit_cov"
    /\ ret' = star_max_likelihood(in.absmag, in.m, in.err, in.A, inv_cov)
    /\ pc' = "fit_ml"
    /\ UNCHANGED <<in, inv_cov, img, E_ML, mu_ML, chi2_ML, prior_ML, cell,
                   prior_max, chi2_min, k, dep, oob, cov_img>>
    /\ UNCHANGED batch_vars

FitParams ==
    /\ pc = "fit_start"
    /\ ret' = star_max_likelihood_params(in.absmag, in.m, in.err, in.A)
    /\ inv_cov' = ret'.inv_cov
    /\ pc' = "fit_params"
    /\ UNCHANGED <<in, img, E_ML, mu_ML, chi2_ML, prior_ML, cell, prior_max,
                   chi2_min, k, dep, oob, cov_img>>
    /\ UNCHANGED batch_vars

NextFit == FitCovariance \/ FitML \/ FitParams

SpecFit == InitFit /\ [][NextFit]_vars

(***************************************************************************)
(* integrate_ML_solution on one star                                       *)
(***************************************************************************)
\* (mu_true, E_true) of the star: inside the grid, in its last bins, outside
StarTruths == {<<Num(1), Num(1)>>, <<Num(3), Num(1)>>, <<Num(9), Num(1)>>}

\* the errors of the star: ordinary, the first band exactly at the sentinel,
\* the first band or every band without a measurement
StarErrPatterns ==
    {[i \in Bands |-> Num(1)],
     [i \in Bands |-> IF i = 1 THEN Num(MISSING_ERR) ELSE Num(1)],
     [i \in Bands |-> IF i = 1 THEN PInf ELSE Num(1)],
     [i \in Bands |-> PInf]}

\* the cells the library has an SED for: all, none, all but one, only one
PresentPatterns ==
    {S \in SUBSET Cells : Cardinality(S) <= 1 \/ Cardinality(Cells \ S) <= 1}

\* use_priors and use_gaia
PriorFlags == {<<FALSE, FALSE>>, <<TRUE, TRUE>>}

Verbosities == {0, 1, 2}

\* what the star's magnitudes differ by from the SED of cell 0: nothing, or a
\* colour so far from every SED of the library that the chi2 of two cells
\* differ by more than 2 * 745
StarNoisePatterns ==
    {[i \in Bands |-> Zero],
     [i \in Bands |-> IF i = 2 THEN Num(500) ELSE Num(-250)]}

\* the far colour is tried without the parallax term of the prior, whose
\* square leaves the integers of the model
StarNoise(use_gaia) ==
    IF use_gaia THEN {[i \in Bands |-> Zero]} ELSE StarNoisePatterns

Init ==
    /\ pc = "entry"
    /\ \E err \in StarErrPatterns, A \in APatterns, t \in StarTruths,
          present \in PresentPatterns, fl \in PriorFlags,
          verbosity \in Verbosities :
          \E noise \in StarNoise(fl[2]) :
              in = [err |-> err, A |-> A,
                    m |-> Magnitudes(AbsMag(0), A, t[1], t[2], noise),
                    pi |-> Frac(1, 10), pierr |-> Frac(1, 10),
                    present |-> present,
                    use_priors |-> fl[1], use_gaia |-> fl[2],
                    verbosity |-> verbosity]
    /\ inv_cov = Null /\ ret = Null
    /\ img = Null /\ E_ML = <<>> /\ mu_ML = <<>> /\ chi2_ML = <<>>
    /\ prior_ML = <<>> /\ cell = 0 /\ prior_max = Null /\ chi2_min = Null
    /\ k = 0 /\ dep = <<>> /\ oob = {} /\ cov_img = Null
    /\ NoBatch

\* star_covariance, initialize_to_zero and the empty vectors
Enter ==
    /\ pc = "entry"
    /\ inv_cov' = star_covariance(in.err, in.A)
    /\ img' = ZeroImg
    /\ E_ML' = <<>> /\ mu_ML' = <<>> /\ chi2_ML' = <<>> /\ prior_ML' = <<>>
    /\ cell' = 0
    /\ pc' = "sweep"
    /\ UNCHANGED <<in, prior_max, chi2_min, k, dep, oob, cov_img, ret>>
    /\ UNCHANGED batch_vars

\* one cell of the sweep whose SED is not in the library
SweepSkip ==
    /\ pc = "sweep" /\ cell < NCells
    /\ cell \notin in.present
    /\ cell' = cell + 1
    /\ UNCHANGED <<pc, in, inv_cov, img, E_ML, mu_ML, chi2_ML, prior_ML,
                   prior_max, chi2_min, k, dep, oob, cov_img, ret>>
    /\ UNCHANGED batch_vars

\* one cell of the sweep: the fit, the prior, the four push_backs
SweepRecord ==
    /\ pc = "sweep" /\ cell < NCells
    /\ cell \in in.present
    /\ LET ml == star_max_likelihood(AbsMag(cell), in.m, in.err, in.A, inv_cov)
           prior == Prior(cell, ml.mu, in.use_priors, in.use_gaia, in.pi, in.pierr)
       IN  /\ E_ML' = Append(E_ML, ml.E)
           /\ mu_ML' = Append(mu_ML, ml.mu)
           /\ chi2_ML' = Append(chi2_ML, ml.chi2)
           /\ prior_ML' = Append(prior_ML, prior)
    /\ cell' = cell + 1
    /\ UNCHANGED <<pc, in, inv_cov, img, prior_max, chi2_min, k, dep, oob,
                   cov_img, ret>>
    /\ UNCHANGED batch_vars

\* prior_max and chi2_min over the recorded cells
Anchors ==
    /\ pc = "sweep" /\ cell = NCells
    /\ prior_ML # <<>>
    /\ prior_max' = max_element(prior_ML)
    /\ chi2_min' = min_element(chi2_ML)
    /\ k' = 0
    /\ pc' = "deposit"
    /\ UNCHANGED <<in, inv_cov, img, E_ML, mu_ML, chi2_ML, prior_ML, cell,
                   dep, oob, cov_img, ret>>
    /\ UNCHANGED batch_vars

\* nothing recorded: *max_element(begin, end) reads *end(), which is
\* undefined; the read yields whatever the reserved storage holds ...
AnchorsEmptyGarbage ==
    /\ pc = "sweep" /\ cell = NCells
    /\ prior_ML = <<>>
    /\ prior_max' \in GarbageVals
    /\ chi2_min' \in GarbageVals
    /\ k' = 0
    /\ pc' = "deposit"
    /\ UNCHANGED <<in, inv_cov, img, E_ML, mu_ML, chi2_ML, prior_ML, cell,
                   dep, oob, cov_img, ret>>
    /\ UNCHANGED batch_vars

\* ... or is caught by a checked build, which aborts
AnchorsEmptyFault ==
    /\ pc = "sweep" /\ cell = NCells
    /\ prior_ML = <<>>
    /\ pc' = "abort_empty_range"
    /\ UNCHANGED <<in, inv_cov, img, E_ML, mu_ML, chi2_ML, prior_ML, cell,
                   prior_max, chi2_min, k, dep, oob, cov_img, ret>>
    /\ UNCHANGED batch_vars

\* log_p and p of recorded cell j (1-based) under the given anchors
LogP(j, c2min, pmax) ==
    Add(Mul(Frac(-1, 2), Sub(chi2_ML[j], c2min)), Sub(prior_ML[j], pmax))

\* recorded cell k whose (E, mu) is out of bounds: nothing is written
DepositDropped ==
    /\ pc = "deposit" /\ k < Len(mu_ML)
    /\ ~get_interpolant(E_ML[k + 1], mu_ML[k + 1]).in_bounds
    /\ k' = k + 1
    /\ UNCHANGED <<pc, in, inv_cov, img, E_ML, mu_ML, chi2_ML, prior_ML, cell,
                   prior_max, chi2_min, dep, oob, cov_img, ret>>
    /\ UNCHANGED batch_vars

\* recorded cell k in bounds: the four writes
Deposit ==
    /\ pc = "deposit" /\ k < Len(mu_ML)
    /\ LET ip == get_interpolant(E_ML[k + 1], mu_ML[k + 1])
           log_p == LogP(k + 1, chi2_min, prior_max)
           p == Exp(log_p)
           ws == DepositWrites(ip.idx[0], ip.idx[1], ip.a[0], ip.a[1], p)
       IN  /\ ip.in_bounds
           /\ img' = ApplyWrites(img, ws, Len(ws))
           /\ oob' = oob \cup OutsideWrites(ws)
           /\ dep' = Append(dep, [k |-> k, chi2_min |-> chi2_min,
                                  prior_max |-> prior_max, log_p |-> log_p,
                                  p |-> p, writes |-> ws])
    /\ k' = k + 1
    /\ UNCHANGED <<pc, in, inv_cov, E_ML, mu_ML, chi2_ML, prior_ML, cell,
                   prior_max, chi2_min, cov_img, ret>>
    /\ UNCHANGED batch_vars

\* a write outside the surface in a build that checks at<>(): it aborts
DepositFault ==
    /\ pc = "deposit" /\ k < Len(mu_ML)
    /\ LET ip == get_interpolant(E_ML[k + 1], mu_ML[k + 1])
       IN  /\ ip.in_bounds
           /\ \/ ip.idx[0] + 1 >= N_bins[0]
              \/ ip.idx[1] + 1 >= N_bins[1]
    /\ pc' = "abort_at"
    /\ UNCHANGED <<in, inv_cov, img, E_ML, mu_ML, chi2_ML, prior_ML, cell,
                   prior_max, chi2_min, k, dep, oob, cov_img, ret>>
    /\ UNCHANGED batch_vars

\* what (int)NaN can be: INT_MIN or 0
NaNCasts == {0, -2147483647 - 1}

\* the conversions the build can make for this inverse covariance: there is a
\* choice only when a sigma is NaN
CastChoices(ic, dx, add_diagonal) ==
    IF \E a \in {0, 1} : IsNaN(Sigma2(Broaden(ic, dx, add_diagonal))[a])
    THEN NaNCasts ELSE {0}

\* the arguments integrate_ML_solution passes for the inverse covariance
StarKernelCov ==
    [inv_cov_00 |-> inv_cov.inv_cov_11,
     inv_cov_01 |-> inv_cov.inv_cov_01,
     inv_cov_11 |-> inv_cov.inv_cov_00]

\* the kernel as integrate_ML_solution asks for it: n_sigma 5, min_width 2,
\* add_diagonal 1.0, and verbosity in the place of subsample
StarKernel(nan_cast) ==
    gaussian_filter(StarKernelCov, RectDx, Num(5), 2, One, in.verbosity, nan_cast)

\* gaussian_filter builds cov_img
BuildKernel ==
    /\ pc = "deposit" /\ k = Len(mu_ML)
    /\ \E nan_cast \in CastChoices(StarKernelCov, RectDx, One) :
          /\ cov_img' = StarKernel(nan_cast)
          /\ ~cov_img'.raised
          /\ cov_img'.width[0] >= 0 /\ cov_img'.width[1] >= 0
    /\ pc' = "filter"
    /\ UNCHANGED <<in, inv_cov, img, E_ML, mu_ML, chi2_ML, prior_ML, cell,
                   prior_max, chi2_min, k, dep, oob, ret>>
    /\ UNCHANGED batch_vars

\* cv::filter2D and the assignment of filtered_img to the surface
Smooth ==
    /\ pc = "filter"
    /\ img' = filter2D(img, cov_img.img, cov_img.width)
    /\ pc' = "count"
    /\ UNCHANGED <<in, inv_cov, E_ML, mu_ML, chi2_ML, prior_ML, cell,
                   prior_max, chi2_min, k, dep, oob, cov_img, ret>>
    /\ UNCHANGED batch_vars

\* cv::resize throws and nothing catches it
BuildKernelRaises ==
    /\ pc = "deposit" /\ k = Len(mu_ML)
    /\ in.verbosity < 1
    /\ pc' = "raised_resize"
    /\ UNCHANGED <<in, inv_cov, img, E_ML, mu_ML, chi2_ML, prior_ML, cell,
                   prior_max, chi2_min, k, dep, oob, cov_img, ret>>
    /\ UNCHANGED batch_vars

\* return chi2_min / n_passbands
Return ==
    /\ pc = "count"
    /\ ret' = Div(chi2_min, Num(n_passbands(in.err)))
    /\ pc' = "done"
    /\ UNCHANGED <<in, inv_cov, img, E_ML, mu_ML, chi2_ML, prior_ML, cell,
                   prior_max, chi2_min, k, dep, oob, cov_img>>
    /\ UNCHANGED batch_vars

Next ==
    \/ Enter \/ SweepSkip \/ SweepRecord
    \/ Anchors \/ AnchorsEmptyGarbage \/ AnchorsEmptyFault
    \/ DepositDropped \/ Deposit \/ DepositFault
    \/ BuildKernel \/ BuildKernelRaises \/ Smooth \/ Return

Spec == Init /\ [][Next]_vars

(***************************************************************************)
(* gaussian_filter run on one inverse covariance                           *)
(***************************************************************************)
\* inverse covariances: of three bands with distinct coefficients, of bands
\* with one coefficient, of a single band, of no band, and the unit matrix
KernelTriples ==
    {[inv_cov_00 |-> Num(t[1]), inv_cov_01 |-> Num(t[2]), inv_cov_11 |-> Num(t[3])] :
        t \in {<<3, 6, 14>>, <<3, 3, 3>>, <<1, 3, 9>>, <<0, 0, 0>>, <<1, 0, 1>>}}

InitKernel ==
    /\ pc = "kernel_start"
    /\ \E ic \in KernelTriples, add_diagonal \in {Num(-1), One},
          subsample \in {0, 1, 2}, min_width \in {1, 2},
          n_sigma \in {Num(1), Num(5)} :
          in = [ic |-> ic, add_diagonal |-> add_diagonal, subsample |-> subsample,
                min_width |-> min_width, n_sigma |-> n_sigma]
    /\ inv_cov = Null /\ ret = Null
    /\ img = Null /\ E_ML = <<>> /\ mu_ML = <<>> /\ chi2_ML = <<>>
    /\ prior_ML = <<>> /\ cell = 0 /\ prior_max = Null /\ chi2_min = Null
    /\ k = 0 /\ dep = <<>> /\ oob = {} /\ cov_img = Null
    /\ NoBatch

\* the whole of gaussian_filter, for a kernel within MaxHalfWidth
KernelBuild ==
    /\ pc = "kernel_start"
    /\ \E nan_cast \in CastChoices(in.ic, RectDx, in.add_diagonal) :
          /\ cov_img' = gaussian_filter(in.ic, RectDx, in.n_sigma, in.min_width,
                                        in.add_diagonal, in.subsample, nan_cast)
          /\ ~cov_img'.raised
          /\ cov_img'.width[0] >= 0 /\ cov_img'.width[1] >= 0
    /\ pc' = "kernel_done"
    /\ UNCHANGED <<in, inv_cov, img, E_ML, mu_ML, chi2_ML, prior_ML, cell,
                   prior_max, chi2_min, k, dep, oob, ret>>
    /\ UNCHANGED batch_vars

\* cv::resize throws on the empty sub-sampled image
KernelRaises ==
    /\ pc = "kernel_start"
    /\ in.subsample < 1
    /\ pc' = "raised_resize"
    /\ UNCHANGED <<in, inv_cov, img, E_ML, mu_ML, chi2_ML, prior_ML, cell,
                   prior_max, chi2_min, k, dep, oob, cov_img, ret>>
    /\ UNCHANGED batch_vars

NextKernel == KernelBuild \/ KernelRaises

SpecKernel == InitKernel /\ [][NextKernel]_vars

(***************************************************************************)
(* integrate_ML_solution as one call, for grid_eval_stars                  *)
(***************************************************************************)
\* what the sweep records for cell c
CellEntry(a, ic, c) ==
    CHOOSE r \in
        {[E |-> ml.E, mu |-> ml.mu, chi2 |-> ml.chi2,
          prior |-> Prior(c, ml.mu, a.use_priors, a.use_gaia, a.pi, a.pierr)] :
            ml \in {star_max_likelihood(AbsMag(c), a.m, a.err, a.A, ic)}} : TRUE

RECURSIVE SweepTo(_, _, _)
\* the entries recorded by the sweep over cells 0 .. n-1
SweepTo(a, ic, n) ==
    IF n = 0 THEN <<>>
    ELSE IF (n - 1) \in a.present
         THEN Append(SweepTo(a, ic, n - 1), CellEntry(a, ic, n - 1))
         ELSE SweepTo(a, ic, n - 1)

\* the four writes of recorded cell e, none when its (E, mu) is out of bounds
CellWrites(e, c2min, pmax) ==
    LET ip == get_interpolant(e.E, e.mu)
        log_p == Add(Mul(Frac(-1, 2), Sub(e.chi2, c2min)), Sub(e.prior, pmax))
    IN  IF ip.in_bounds
        THEN DepositWrites(ip.idx[0], ip.idx[1], ip.a[0], ip.a[1], Exp(log_p))
        ELSE <<>>

RECURSIVE AllWrites(_, _, _, _)
\* the writes of the deposit loop over the first n recorded cells, in order
AllWrites(rec, c2min, pmax, n) ==
    IF n = 0 THEN <<>>
    ELSE AllWrites(rec, c2min, pmax, n - 1) \o CellWrites(rec[n], c2min, pmax)

\* the anchors and the writes of the deposit loop, for a non-empty record
StarDeposits(rec) ==
    CHOOSE r \in
        {[chi2_min |-> q[1], prior_max |-> q[2],
          writes |-> AllWrites(rec, q[1], q[2], Len(rec))] :
            q \in {<<min_element([j \in 1 .. Len(rec) |-> rec[j].chi2]),
                     max_element([j \in 1 .. Len(rec) |-> rec[j].prior])>>}} : TRUE

\* the kernel integrate_ML_solution asks for, for the inverse covariance ic
CallKernel(ic, verbosity, nan_cast) ==
    gaussian_filter([inv_cov_00 |-> ic.inv_cov_11,
                     inv_cov_01 |-> ic.inv_cov_01,
                     inv_cov_11 |-> ic.inv_cov_00],
                    RectDx, Num(5), 2, One, verbosity, nan_cast)

\* the rest of the call after the anchors d: the writes it makes, the surface
\* after the deposit loop, whether the kernel's construction raised, the
\* surface and the value at the return
CallFromDeposits(a, ic, d, nan_cast) ==
    CHOOSE r \in
        {[writes |-> d.writes, deposited |-> q[1], raised |-> q[2].raised,
          img |-> IF q[2].raised \/ q[2].img = <<>> THEN q[1]
                  ELSE filter2D(q[1], q[2].img, q[2].width),
          ret |-> Div(d.chi2_min, Num(n_passbands(a.err)))] :
            q \in {<<ApplyWrites(ZeroImg, d.writes, Len(d.writes)),
                     CallKernel(ic, a.verbosity, nan_cast)>>}} : TRUE

\* the rest of the call after star_covariance
CallFromCovariance(a, ic, nan_cast) ==
    CHOOSE r \in
        {CallFromDeposits(a, ic, d, nan_cast) :
            d \in {StarDeposits(SweepTo(a, ic, NCells))}} : TRUE

\* the whole call with arguments a, for a library with a cell present
integrate_ML_solution(a, nan_cast) ==
    CHOOSE r \in
        {CallFromCovariance(a, ic, nan_cast) :
            ic \in {star_covariance(a.err, a.A)}} : TRUE

(***************************************************************************)
(* grid_eval_stars on the stars of one pixel                               *)
(***************************************************************************)
\* most stars in a pixel
MaxStars == 2

\* the stars: well measured, with distinct coefficients, (mu_true, E_true)
\* inside the grid or in its last bins
BatchStarKinds ==
    {[err |-> [i \in Bands |-> Num(1)], A |-> [i \in Bands |-> Num(i)],
      m |-> Magnitudes(AbsMag(0), [i \in Bands |-> Num(i)], t[1], t[2],
                       [i \in Bands |-> Zero]),
      pi |-> Frac(1, 10), pierr |-> Frac(1, 10)] :
        t \in {<<Num(1), Num(1)>>, <<Num(3), Num(1)>>}}

\* stellar_data.star
StarLists == UNION {[1 .. n -> BatchStarKinds] : n \in 0 .. MaxStars}

\* what a surface of the stack holds before the call
StaleImg == [b \in Bins |-> One]

\* EBV_smoothing.get_pct_smoothing_max()
PctSmoothingMax == {Zero, Frac(1, 2)}

\* the arguments of integrate_ML_solution for star n (1-based) of the pixel;
\* the library has an SED for every cell
CallArgs(n) ==
    [err |-> in.stars[n].err, A |-> in.stars[n].A, m |-> in.stars[n].m,
     pi |-> in.stars[n].pi, pierr |-> in.stars[n].pierr,
     present |-> Cells,
     use_priors |-> in.use_priors, use_gaia |-> in.use_gaia,
     verbosity |-> in.verbosity]

InitBatch ==
    /\ pc = "batch_entry"
    /\ \E stars \in StarLists, pct \in PctSmoothingMax, save_surfs \in BOOLEAN,
          verbosity \in {0, 1} :
          /\ in = [stars |-> stars, pct_smoothing_max |-> pct,
                   save_surfs |-> save_surfs,
                   use_priors |-> FALSE, use_gaia |-> FALSE,
                   verbosity |-> verbosity]
          /\ img_stack = [n \in 1 .. Len(stars) |-> StaleImg]
    /\ chi2 = <<One>>
    /\ star_i = 0 /\ cropped = FALSE /\ smoothed = <<>> /\ written = <<>>
    /\ inv_cov = Null /\ ret = Null
    /\ img = Null /\ E_ML = <<>> /\ mu_ML = <<>> /\ chi2_ML = <<>>
    /\ prior_ML = <<>> /\ cell = 0 /\ prior_max = Null /\ chi2_min = Null
    /\ k = 0 /\ dep = <<>> /\ oob = {} /\ cov_img = Null

\* set_rect, chi2.clear()
BatchEnter ==
    /\ pc = "batch_entry"
    /\ chi2' = <<>>
    /\ star_i' = 0
    /\ pc' = "batch_stars"
    /\ UNCHANGED <<in, img_stack, cropped, smoothed, written>>
    /\ UNCHANGED star_vars

\* the writes of a call that name no element of the surface's storage
StrayWrites(ws) == {q \in 1 .. Len(ws) : ~InStorage(ws[q].row, ws[q].col)}

\* the writes of a call that name no bin of the surface
UncheckedWrites(ws) == {q \in 1 .. Len(ws) : ~InSurface(ws[q].row, ws[q].col)}

\* the loop has another star to process
LoopRuns == star_i < Len(in.stars)

\* one pass of the loop whose call returns; a write past the storage of the
\* star's surface, if the call makes one, lands in memory the model does not
\* hold
BatchStar ==
    /\ pc = "batch_stars" /\ LoopRuns
    /\ \E r \in {integrate_ML_solution(CallArgs(star_i + 1), 0)} :
              /\ ~r.raised
              /\ img_stack' = [img_stack EXCEPT ![star_i + 1] = r.img]
              /\ chi2' = Append(chi2, r.ret)
    /\ star_i' = star_i + 1
    /\ UNCHANGED <<pc, in, cropped, smoothed, written>>
    /\ UNCHANGED star_vars

\* the same, where a write past the storage of the star's surface lands in
\* the storage of another star's surface
BatchStarStray ==
    /\ pc = "batch_stars" /\ LoopRuns
    /\ \E r \in {integrate_ML_solution(CallArgs(star_i + 1), 0)} :
              /\ ~r.raised
              /\ \E q \in StrayWrites(r.writes),
                    j \in (1 .. Len(in.stars)) \ {star_i + 1} :
                    LET w == r.writes[q]
                        o == w.row * N_bins[1] + w.col - N_bins[0] * N_bins[1]
                        b == <<o \div N_bins[1], o % N_bins[1]>>
                    IN  /\ b \in Bins
                        /\ img_stack' =
                              [img_stack EXCEPT
                                  ![star_i + 1] = r.img,
                                  ![j] = [@ EXCEPT ![b] = Add(@, w.v)]]
              /\ chi2' = Append(chi2, r.ret)
    /\ star_i' = star_i + 1
    /\ UNCHANGED <<pc, in, cropped, smoothed, written>>
    /\ UNCHANGED star_vars

\* the call stops at a write outside the surface, in a build that checks at<>()
BatchStarAborts ==
    /\ pc = "batch_stars" /\ LoopRuns
    /\ \E r \in {integrate_ML_solution(CallArgs(star_i + 1), 0)} :
          /\ UncheckedWrites(r.writes) # {}
          /\ \E first \in UncheckedWrites(r.writes) :
                /\ \A u \in UncheckedWrites(r.writes) : first <= u
                /\ img_stack' =
                      [img_stack EXCEPT
                          ![star_i + 1] = ApplyWrites(ZeroImg, r.writes, first - 1)]
    /\ pc' = "abort_at"
    /\ UNCHANGED <<in, chi2, star_i, cropped, smoothed, written>>
    /\ UNCHANGED star_vars

\* cv::resize throws in the call: the surface is left as deposited
BatchStarRaises ==
    /\ pc = "batch_stars" /\ LoopRuns
    /\ \E r \in {integrate_ML_solution(CallArgs(star_i + 1), 0)} :
          /\ r.raised
          /\ img_stack' = [img_stack EXCEPT ![star_i + 1] = r.deposited]
    /\ pc' = "raised_resize"
    /\ UNCHANGED <<in, chi2, star_i, cropped, smoothed, written>>
    /\ UNCHANGED star_vars

\* img_stack.crop(0., 7., 4., 19.) after the loop; TImgStack::crop is defined
\* in another file, the model holds that the call was made and keeps the
\* surfaces as the loop left them
BatchCrop ==
    /\ pc = "batch_stars" /\ ~LoopRuns
    /\ cropped' = TRUE
    /\ pc' = "batch_smooth"
    /\ UNCHANGED <<in, img_stack, chi2, star_i, smoothed, written>>
    /\ UNCHANGED star_vars

\* a test that takes the smoothing branch whatever the configured maximum
SmoothingAlways(pct_smoothing_max) == TRUE

\* if(EBV_smoothing.get_pct_smoothing_max() > 0.)
SmoothingWanted(pct_smoothing_max) == Gt(pct_smoothing_max, Zero)

\* sigma_pix after sigma_pix[i] *= (double)i, for a calc_pct_smoothing that
\* gives every bin the maximum
SigmaPix(pct_smoothing_max) ==
    [b \in 1 .. N_bins[0] |-> Mul(pct_smoothing_max, Num(b - 1))]

\* img_stack.smooth(sigma_pix); TImgStack::smooth is defined in another file,
\* the model holds the call, its argument, and how far the function had got
BatchSmooth ==
    /\ pc = "batch_smooth"
    /\ SmoothingWanted(in.pct_smoothing_max)
    /\ smoothed' = Append(smoothed, [sigma_pix |-> SigmaPix(in.pct_smoothing_max),
                                     stars_done |-> Len(chi2),
                                     cropped |-> cropped])
    /\ pc' = "batch_write"
    /\ UNCHANGED <<in, img_stack, chi2, star_i, cropped, written>>
    /\ UNCHANGED star_vars

BatchNoSmooth ==
    /\ pc = "batch_smooth"
    /\ ~SmoothingWanted(in.pct_smoothing_max)
    /\ pc' = "batch_write"
    /\ UNCHANGED <<in, img_stack, chi2, star_i, cropped, smoothed, written>>
    /\ UNCHANGED star_vars

\* img_buffer.add of every surface, then img_buffer.write
BatchWrite ==
    /\ pc = "batch_write"
    /\ in.save_surfs
    /\ written' = Append(written, [surfaces |-> img_stack,
                                   smooth_calls |-> Len(smoothed)])
    /\ pc' = "batch_done"
    /\ UNCHANGED <<in, img_stack, chi2, star_i, cropped, smoothed>>
    /\ UNCHANGED star_vars

BatchNoWrite ==
    /\ pc = "batch_write"
    /\ ~in.save_surfs
    /\ pc' = "batch_done"
    /\ UNCHANGED <<in, img_stack, chi2, star_i, cropped, smoothed, written>>
    /\ UNCHANGED star_vars

NextBatch ==
    \/ BatchEnter
    \/ BatchStar \/ BatchStarStray \/ BatchStarAborts \/ BatchStarRaises
    \/ BatchCrop \/ BatchSmooth \/ BatchNoSmooth \/ BatchWrite \/ BatchNoWrite

SpecBatch == InitBatch /\ [][NextBatch]_vars

(***************************************************************************)
(* Properties                                                              *)
(***************************************************************************)
\* a band is missing when its error is at or above the sentinel
Missing(err_i) == ~Lt(err_i, Num(MISSING_ERR))

NonMissing(err) == {i \in Bands : ~Missing(err[i])}

\* the sum of f over the non-missing bands only
SumNonMissing(f, err) ==
    SumTo([i \in Bands |-> IF Missing(err[i]) THEN Zero ELSE f[i]], NBANDS)

\* C1: in star_covariance and star_max_likelihood a band whose error is at or
\* above the sentinel contributes nothing: the three inverse-covariance sums,
\* the two data sums and chi2 equal the same sums over the non-missing bands.
C1_MissingBandsExcluded ==
    LET ivar == [i \in Bands |-> Ivar(in.err[i])]
        dm == [i \in Bands |-> Sub(in.m[i], in.absmag[i])]
    IN  /\ pc \in {"fit_cov", "fit_ml"} =>
              /\ inv_cov.inv_cov_00 = SumNonMissing(ivar, in.err)
              /\ inv_cov.inv_cov_01 =
                    SumNonMissing([i \in Bands |-> Mul(in.A[i], ivar[i])], in.err)
              /\ inv_cov.inv_cov_11 =
                    SumNonMissing([i \in Bands |->
                                      Mul(Mul(in.A[i], in.A[i]), ivar[i])], in.err)
        /\ pc = "fit_ml" =>
              /\ ret.dm_over_sigma2 =
                    SumNonMissing([i \in Bands |-> Mul(dm[i], ivar[i])], in.err)
              /\ ret.dm_A_over_sigma2 =
                    SumNonMissing([i \in Bands |->
                                      Mul(Mul(dm[i], in.A[i]), ivar[i])], in.err)
              /\ ret.chi2 =
                    SumNonMissing(
                        [i \in Bands |->
                            LET delta == Sub(Sub(dm[i], Mul(ret.E, in.A[i])), ret.mu)
                            IN  Mul(Mul(delta, delta), ivar[i])], in.err)

\* C2: each of the four bins a bilinear deposit writes lies inside the
\* N_bins[0] x N_bins[1] surface: no recorded (E, mu) causes a write outside
\* the surface, whether the write lands in other storage or aborts the run.
C2_DepositsInsideSurface ==
    /\ oob = {}
    /\ \A n \in 1 .. Len(dep) : \A q \in 1 .. Len(dep[n].writes) :
          InSurface(dep[n].writes[q].row, dep[n].writes[q].col)
    /\ pc # "abort_at"

\* C3: for every pattern of present and absent cells, the one with every cell
\* absent included, each absent cell is skipped, each present cell swept so far
\* has exactly one (E, mu, chi2, prior) entry, and the run does not end in a
\* fatal error for want of recorded cells.
C3_AbsentCellsSkipped ==
    LET n == Cardinality({c \in in.present : c < cell})
    IN  /\ pc # "entry" =>
              /\ Len(E_ML) = n /\ Len(mu_ML) = n
              /\ Len(chi2_ML) = n /\ Len(prior_ML) = n
        /\ pc # "abort_empty_range"

\* C4: no division by the determinant of an inverse covariance is a division
\* by zero: the divisor of the covariance conversion in gaussian_filter, the
\* divisor of its sigmas and the divisor 1 - C_01*C_10 of star_max_likelihood
\* are all positive, also for the singular inverse covariance of a star
\* measured in every band.
C4_DeterminantRegularized ==
    (pc # "entry" /\ \A i \in Bands : IsFinite(in.err[i])) =>
        /\ Gt(CDetDenominator(inv_cov.inv_cov_00, inv_cov.inv_cov_01,
                              inv_cov.inv_cov_11), Zero)
        /\ Gt(Det(StarKernelCov.inv_cov_00, StarKernelCov.inv_cov_01,
                  StarKernelCov.inv_cov_11), Zero)
        /\ LET b == Broaden(StarKernelCov, RectDx, One)
           IN  Gt(Add(Det(b.inv_cov_00, b.inv_cov_01, b.inv_cov_11), RegEps), Zero)

\* C5: a star with zero non-missing bands is rejected at entry: the sweep is
\* never run for it and no NaN or infinite chi2 per passband is returned.
C5_ZeroBandsFailFast ==
    NonMissing(in.err) = {} =>
        /\ pc \notin {"sweep", "deposit", "filter", "count", "done"}
        /\ cell = 0 /\ E_ML = <<>>
        /\ (pc = "done" => IsFinite(ret))

\* C6: the value returned is the least chi2 of the recorded cells divided by
\* the number of non-missing bands, a band being missing exactly when its
\* error is >= the sentinel (so a band at exactly the sentinel is not counted).
C6_ReturnsChi2PerNonMissingBand ==
    (pc = "done" /\ chi2_ML # <<>>) =>
        \E j \in 1 .. Len(chi2_ML) :
            /\ \A i \in 1 .. Len(chi2_ML) : ~Lt(chi2_ML[i], chi2_ML[j])
            /\ ret = Div(chi2_ML[j], Num(Cardinality(NonMissing(in.err))))

\* every recorded cell's (E, mu) lies outside the output grid
AllOutside ==
    /\ mu_ML # <<>>
    /\ \A j \in 1 .. Len(mu_ML) : ~get_interpolant(E_ML[j], mu_ML[j]).in_bounds

\* C7: when every recorded cell's ML (E, mu) lies outside the output grid, no
\* deposit is made, the surface is all-zero after the convolution, and a
\* finite chi2 is returned without raising.
C7_AllOutsideZeroSurface ==
    (cell = NCells /\ pc # "sweep" /\ AllOutside) =>
        /\ dep = <<>>
        /\ pc \notin {"raised_resize", "abort_at", "abort_empty_range"}
        /\ (pc \in {"count", "done"} => img = ZeroImg)
        /\ (pc = "done" => IsFinite(ret))

\* C8: for a supersampling factor >= 1 and an inverse covariance with a
\* positive diagonal the kernel is (2*w0+1) x (2*w1+1) with both half-widths
\* >= min_width, is exactly 1 at its center bin (w0, w1) and is non-negative
\* in every bin.
C8_KernelShape ==
    (/\ pc = "kernel_done" /\ in.subsample >= 1
     /\ Gt(in.ic.inv_cov_00, Zero) /\ Gt(in.ic.inv_cov_11, Zero)) =>
        LET w == cov_img.width
        IN  /\ w[0] >= in.min_width /\ w[1] >= in.min_width
            /\ DOMAIN cov_img.img = (0 .. 2 * w[0]) \X (0 .. 2 * w[1])
            /\ cov_img.img[<<w[0], w[1]>>] = One
            /\ \A b \in DOMAIN cov_img.img : Ge(cov_img.img[b], Zero)

\* the magnitudes carry no noise: m_i = M_i + mu_true + E_true * A_i
NoiseFree == \A i \in Bands : in.noise[i] = Zero

\* the fit returned the true parameters and a chi2 of zero
Recovered == ret.mu = in.mu_true /\ ret.E = in.E_true /\ ret.chi2 = Zero

TwoMeasuredBands ==
    \E i, j \in Bands :
        IsFinite(in.err[i]) /\ IsFinite(in.err[j]) /\ in.A[i] # in.A[j]

IsLeast(c, s) ==
    /\ \E j \in 1 .. Len(s) : s[j] = c
    /\ \A j \in 1 .. Len(s) : ~Lt(s[j], c)

\* c is an element of s that compares less than no element of s
IsGreatest(c, s) ==
    /\ \E j \in 1 .. Len(s) : s[j] = c
    /\ \A j \in 1 .. Len(s) : ~Lt(c, s[j])

\* C10: nothing is deposited before the sweep over the whole stellar-type grid
\* has finished; every deposit made used the chi2_min and prior_max taken over
\* all recorded cells, which are the final ones.
C10_DepositsAfterSweep ==
    /\ pc \in {"entry", "sweep"} => dep = <<>>
    /\ pc = "sweep" => img = ZeroImg
    /\ \A n \in 1 .. Len(dep) :
          /\ cell = NCells
          /\ Len(chi2_ML) = Cardinality(in.present)
          /\ dep[n].chi2_min = chi2_min /\ dep[n].prior_max = prior_max
          /\ IsLeast(dep[n].chi2_min, chi2_ML)
          /\ IsGreatest(dep[n].prior_max, prior_ML)
          /\ dep[n].log_p =
                Add(Mul(Frac(-1, 2), Sub(chi2_ML[dep[n].k + 1], dep[n].chi2_min)),
                    Sub(prior_ML[dep[n].k + 1], dep[n].prior_max))

\* C10 witness: two cells deposited, with different chi2 and different priors
C10_TwoCellsDeposited ==
    /\ Len(dep) = 2
    /\ chi2_ML[1] # chi2_ML[2] /\ prior_ML[1] # prior_ML[2]
    /\ IsLeast(dep[2].chi2_min, chi2_ML)

\* C11: in one call of grid_eval_stars the second smoothing pass
\* (img_stack.smooth) runs at most once, only when the configured maximum
\* smoothing is greater than zero, and only after integrate_ML_solution has
\* returned for every star and the stack has been cropped; the surfaces are
\* handed to the writer at most once, only when save_surfs is set, and only
\* after that pass (when it is wanted) and after every star and the crop.
C11_SecondPassAfterAllStars ==
    /\ Len(smoothed) <= 1
    /\ \A s \in 1 .. Len(smoothed) :
          /\ Gt(in.pct_smoothing_max, Zero)
          /\ smoothed[s].stars_done = Len(in.stars)
          /\ smoothed[s].cropped
          /\ star_i = Len(in.stars) /\ Len(chi2) = Len(in.stars)
    /\ Len(written) <= 1
    /\ \A w \in 1 .. Len(written) :
          /\ in.save_surfs
          /\ cropped
          /\ star_i = Len(in.stars) /\ Len(chi2) = Len(in.stars)
          /\ written[w].smooth_calls = Len(smoothed)
          /\ written[w].smooth_calls =
                (IF Gt(in.pct_smoothing_max, Zero) THEN 1 ELSE 0)

\* C11 witness: two stars processed, then one smoothing pass, then the
\* surfaces written
C11_SmoothedThenWritten ==
    /\ pc = "batch_done"
    /\ Len(in.stars) = 2 /\ Len(chi2) = 2
    /\ Len(smoothed) = 1 /\ smoothed[1].stars_done = 2
    /\ Len(written) = 1 /\ written[1].smooth_calls = 1

C12_OneChi2PerStar ==
    pc \in {"batch_smooth", "batch_write", "batch_done"} =>
        /\ Len(chi2) = Len(in.stars)
        /\ \A n \in 1 .. Len(in.stars) :
              chi2[n] = integrate_ML_solution(CallArgs(n), 0).ret

\* the sum of the values of the writes ws
SumOfWrites(ws) == SumTo([q \in 1 .. Len(ws) |-> ws[q].v], Len(ws))

\* the sum of the values of the writes ws that name an element of the storage
StoredMass(ws) ==
    SumTo([q \in 1 .. Len(ws) |->
              IF InStorage(ws[q].row, ws[q].col) THEN ws[q].v ELSE Zero], Len(ws))

\* the sum of a surface over its bins
ImgMass(surf) ==
    SumTo([t \in 1 .. N_bins[0] * N_bins[1] |->
              surf[<<(t - 1) \div N_bins[1], (t - 1) % N_bins[1]>>]],
          N_bins[0] * N_bins[1])

\* the anchors have been taken
AnchorsTaken == pc \in {"deposit", "filter", "count", "done", "raised_resize"}

\* the anchors are taken over all recorded cells, in the grid or not
AnchorsOverAllRecorded ==
    AnchorsTaken /\ chi2_ML # <<>> =>
        IsLeast(chi2_min, chi2_ML) /\ IsGreatest(prior_max, prior_ML)

\* the four fractions of every deposit sum to 1
FractionsSumToOne ==
    \A n \in 1 .. Len(dep) : SumOfWrites(dep[n].writes) = dep[n].p

KernelAsked == pc \in {"filter", "count", "done", "raised_resize"}

\* the call on the same inputs with verbosity v gives the surface and the
\* value this call has returned
SameAsRunWith(v) ==
    \A r \in {integrate_ML_solution([in EXCEPT !.verbosity = v], 0)} :
        ~r.raised /\ r.img = img /\ r.ret = ret

\* C14: the kernel of a star is built with a supersampling factor >= 1, and
\* a call that has returned has the surface and the chi2 that the call on the
\* same inputs returns with any other verbosity, 0 included.
C14_SameForEveryVerbosity ==
    /\ KernelAsked => in.verbosity >= 1
    /\ pc = "done" /\ in.present # {}
          /\ CastChoices(StarKernelCov, RectDx, One) = {0}
       => \A v \in Verbosities : SameAsRunWith(v)

\* the second half of C14 alone, for the verbosities whose kernel is built
C14_SameForPositiveVerbosities ==
    pc = "done" /\ in.present # {}
       /\ CastChoices(StarKernelCov, RectDx, One) = {0}
    => \A v \in Verbosities \ {0} : SameAsRunWith(v)

\* a call that has returned has the surface and the chi2 of the call taken as
\* one step
C14_SameAsItself ==
    pc = "done" /\ in.present # {}
       /\ CastChoices(StarKernelCov, RectDx, One) = {0}
    => SameAsRunWith(in.verbosity)

====
